---- MODULE Spec2Model ----
(***************************************************************************)
(* A model of the scene indexing and hit-testing core of metallic:         *)
(*   - HitEngine    (pkgs/metallic/src/rendering_engine/hit_engine/mod.rs) *)
(*   - SceneBundle  (pkgs/metallic/src/rendering_engine/mod.rs)            *)
(*   - ObjectEngine (src/rendering_engine/object_engine.rs)                *)
(*   - input queue  (src/scene.rs)                                         *)
(* Each subsystem has its own specification; the variables of the other    *)
(* subsystems keep their initial value under it.                           *)
(*                                                                         *)
(* Option<T> is modelled as a sequence: <<>> is None, <<v>> is Some(v).    *)
(* Indices are 0-based as in the source; Nth/InsertAt/RemoveAt convert.    *)
(***************************************************************************)
EXTENDS Integers, Sequences, FiniteSets, TLC

VARIABLES
    hit_engine,       \* HitEngine { x_start, x_end, y_start, y_end }
    boxes,            \* history: the bounding boxes inserted since the last clear
    next_id,          \* the number of the next id the caller generates (Uuid::new_v4)
    scene_bundle,     \* SceneBundle { shapes, layer }
    added,            \* history: (object, layer) in the order add_object was called
    layer_panicked,   \* push_layer hit expect("Too many layers pushed")
    layer_last,       \* history: the last SceneBundle call and the state it found
    object_engine,    \* ObjectEngine { object_matrix }
    issued,           \* history: every (key, object) add_object returned, in order
    live,             \* history: (key, object) pairs added and not removed since
    oe_last,          \* history: the last ObjectEngine call and its outcome
    rendering_engine, \* scene.rs RenderingEngine { user_inputs, cursor_position, scene }
    submitted,        \* history: events submitted since the last drain, in order
    conv_1d,          \* the last call of abs_to_scaled_1d: <<>> or <<call>>
    conv_2d,          \* the last call of to_scaled / to_abs: <<>> or <<call>>
    cursor_history,   \* history: the last CursorMoved submitted before the last
                      \* drain, and the last one submitted before its queue
    drained           \* history: what the last drain handled and invoked

hit_vars == <<hit_engine, boxes, next_id>>
layer_vars == <<scene_bundle, added, layer_panicked, layer_last>>
oe_vars == <<object_engine, issued, live, oe_last>>
io_vars == <<rendering_engine, submitted, drained, cursor_history>>
conv_vars == <<conv_1d, conv_2d>>
vars == <<hit_engine, boxes, next_id,
          scene_bundle, added, layer_panicked, layer_last,
          object_engine, issued, live, oe_last,
          rendering_engine, submitted, drained, cursor_history,
          conv_1d, conv_2d>>

\* ------------------------------------------------------------------ bounds
MaxBoxes == 2
MaxCoord == 2
MaxObjects == 4
\* usize::MAX, modelled as a small maximum
UsizeMax == 3
MaxAdds == 3
MaxObjLayer == 1
MaxExtra == 1
MaxPending == 2
MaxRects == 2
\* the largest viewport width and height
MaxLength == 3

Coords == 0..MaxCoord
\* query coordinates also lie before and after every box coordinate
QueryCoords == (0 - 1)..(MaxCoord + 1)
QueryPoints == [x : QueryCoords, y : QueryCoords]

\* ------------------------------------------------------- sequence helpers
Nth(s, i) == s[i + 1]
InsertAt(s, i, e) == SubSeq(s, 1, i) \o <<e>> \o SubSeq(s, i + 1, Len(s))
RemoveAt(s, i) == SubSeq(s, 1, i) \o SubSeq(s, i + 2, Len(s))
Min(a, b) == IF a <= b THEN a ELSE b

\* =================================================================== HitEngine

\* collect: the ids of a slice
collect(slice) == {slice[i].id : i \in 1..Len(slice)}

\* list.binary_search_by(|(_, el)| el.total_cmp(&point)) on a list sorted by el:
\* Ok(i) for an i with list[i].el = point (when several match, any one of them
\* may be returned), else Err(i) with i the position that keeps the list sorted.
\* The set of outcomes; a build picks one.
binary_search_by(list, point) ==
    LET matches == {i \in 0..(Len(list) - 1) : Nth(list, i).el = point}
        below == {i \in 0..(Len(list) - 1) : Nth(list, i).el < point}
    IN IF matches # {}
       THEN {[ok |-> TRUE, index |-> i] : i \in matches}
       ELSE {[ok |-> FALSE, index |-> Cardinality(below)]}

\* search_front that excludes the entry the binary search lands on (Ok(index) =>
\* index for index + 1)
search_front_exclusive(list, point) ==
    {collect(SubSeq(list, 1, r.index)) : r \in binary_search_by(list, point)}

\* search_front: the possible results, one per outcome of the binary search
search_front(list, point) ==
    {collect(SubSeq(list, 1, IF r.ok THEN r.index + 1 ELSE r.index)) :
        r \in binary_search_by(list, point)}

\* search_behind that excludes the entry the binary search lands on (Ok(index) =>
\* index + 1 for index)
search_behind_exclusive(list, point) ==
    {collect(SubSeq(list, (IF r.ok THEN r.index + 1 ELSE r.index) + 1, Len(list))) :
        r \in binary_search_by(list, point)}

\* search_behind: the possible results, one per outcome of the binary search
search_behind(list, point) ==
    {collect(SubSeq(list, r.index + 1, Len(list))) :
        r \in binary_search_by(list, point)}

\* determine_insertion_point that always appends (push for insert at the found
\* index)
determine_insertion_point_end(list, point) == {Len(list)}

\* the closure determine_insertion_point of HitEngine::insert
determine_insertion_point(list, point) ==
    {r.index : r \in binary_search_by(list, point)}

\* HitEngine::hit_search: the possible results
hit_search(he, abs_point) ==
    {{id \in x_start_hit_ids :
          id \in x_end_hit_ids /\ id \in y_start_hit_ids /\ id \in y_end_hit_ids} :
        x_start_hit_ids \in search_front(he.x_start, abs_point.x),
        x_end_hit_ids \in search_behind(he.x_end, abs_point.x),
        y_start_hit_ids \in search_front(he.y_start, abs_point.y),
        y_end_hit_ids \in search_behind(he.y_end, abs_point.y)}

\* Shape::contains_point on a rectangle tl..br
contains_point(rect, abs_point) ==
    /\ rect.tl.x <= abs_point.x /\ abs_point.x <= rect.br.x
    /\ rect.tl.y <= abs_point.y /\ abs_point.y <= rect.br.y

\* a default index whose lists start with a sentinel entry instead of empty
HitEngineDefault_sentinel ==
    LET sentinel == <<[id |-> 0, el |-> 0]>>
    IN [x_start |-> sentinel, x_end |-> sentinel,
        y_start |-> sentinel, y_end |-> sentinel]

HitEngineDefault ==
    [x_start |-> <<>>, x_end |-> <<>>, y_start |-> <<>>, y_end |-> <<>>]

\* the body of HitEngine::insert on the index he: the indexes it can become
inserted(he, bounding_box) ==
    {[x_start |-> InsertAt(he.x_start, x_start_index,
                           [id |-> bounding_box.id, el |-> bounding_box.tl.x]),
      x_end |-> InsertAt(he.x_end, x_end_index,
                         [id |-> bounding_box.id, el |-> bounding_box.br.x]),
      y_start |-> InsertAt(he.y_start, y_start_index,
                           [id |-> bounding_box.id, el |-> bounding_box.tl.y]),
      y_end |-> InsertAt(he.y_end, y_end_index,
                         [id |-> bounding_box.id, el |-> bounding_box.br.y])] :
        x_start_index \in determine_insertion_point(he.x_start, bounding_box.tl.x),
        x_end_index \in determine_insertion_point(he.x_end, bounding_box.br.x),
        y_start_index \in determine_insertion_point(he.y_start, bounding_box.tl.y),
        y_end_index \in determine_insertion_point(he.y_end, bounding_box.br.y)}

\* HitEngine::insert of a box with a fresh id and tl <= br
insert(bounding_box) ==
    /\ hit_engine' \in inserted(hit_engine, bounding_box)
    /\ boxes' = boxes \cup {bounding_box}

\* at most MaxBoxes ids are generated; an id is not generated again after a clear
HitInsert ==
    /\ next_id <= MaxBoxes
    /\ \E x1 \in Coords, x2 \in Coords, y1 \in Coords, y2 \in Coords :
          /\ x1 <= x2 /\ y1 <= y2
          /\ insert([id |-> next_id,
                     tl |-> [x |-> x1, y |-> y1],
                     br |-> [x |-> x2, y |-> y2]])
    /\ next_id' = next_id + 1
    /\ UNCHANGED <<layer_vars, oe_vars, io_vars, conv_vars>>

\* clear that forgets one of the four lists
clear_three_lists ==
    hit_engine' = [x_start |-> <<>>, x_end |-> <<>>, y_start |-> <<>>,
                   y_end |-> hit_engine.y_end]

\* HitEngine::clear
clear ==
    hit_engine' = [x_start |-> <<>>, x_end |-> <<>>, y_start |-> <<>>, y_end |-> <<>>]

HitClear ==
    /\ clear
    /\ boxes' = {}
    /\ UNCHANGED next_id
    /\ UNCHANGED <<layer_vars, oe_vars, io_vars, conv_vars>>

\* ================================================ SceneBundle (layer-ordered list)

\* shapes.binary_search_by(|&(_, curr_layer)| curr_layer.cmp(&layer)): the outcomes
binary_search_by_layer(shapes, layer) ==
    LET matches == {i \in 0..(Len(shapes) - 1) : Nth(shapes, i).layer = layer}
        below == {i \in 0..(Len(shapes) - 1) : Nth(shapes, i).layer < layer}
    IN IF matches # {}
       THEN {[ok |-> TRUE, index |-> i] : i \in matches}
       ELSE {[ok |-> FALSE, index |-> Cardinality(below)]}

SceneBundleNew == [shapes |-> <<>>, layer |-> 0]

\* a call record: the operation and the SceneBundle it was called on
LayerCall(op, before) == [op |-> op, before |-> before]

\* push_layer with wrapping_add(1) for checked_add(1).expect(..)
push_layer_wrapping ==
    /\ ~layer_panicked
    /\ scene_bundle' = [scene_bundle EXCEPT
                          !.layer = (scene_bundle.layer + 1) % (UsizeMax + 1)]
    /\ layer_last' = LayerCall("push_layer", scene_bundle)
    /\ UNCHANGED <<added, layer_panicked, hit_vars, oe_vars, io_vars, conv_vars>>

\* RenderingEngine::push_layer: checked_add(1).expect("Too many layers pushed")
push_layer ==
    /\ ~layer_panicked
    /\ IF scene_bundle.layer = UsizeMax
       THEN /\ layer_panicked' = TRUE
            /\ UNCHANGED scene_bundle
       ELSE /\ scene_bundle' = [scene_bundle EXCEPT !.layer = scene_bundle.layer + 1]
            /\ UNCHANGED layer_panicked
    /\ layer_last' = LayerCall("push_layer", scene_bundle)
    /\ UNCHANGED <<added, hit_vars, oe_vars, io_vars, conv_vars>>

\* pop_layer with wrapping_sub(1) for saturating_sub(1)
pop_layer_wrapping ==
    /\ ~layer_panicked
    /\ scene_bundle' = [scene_bundle EXCEPT
                          !.layer = IF scene_bundle.layer = 0 THEN UsizeMax
                                    ELSE scene_bundle.layer - 1]
    /\ layer_last' = LayerCall("pop_layer", scene_bundle)
    /\ UNCHANGED <<added, layer_panicked, hit_vars, oe_vars, io_vars, conv_vars>>

\* RenderingEngine::pop_layer: saturating_sub(1)
pop_layer ==
    /\ ~layer_panicked
    /\ scene_bundle' = [scene_bundle EXCEPT
                          !.layer = IF scene_bundle.layer = 0 THEN 0
                                    ELSE scene_bundle.layer - 1]
    /\ layer_last' = LayerCall("pop_layer", scene_bundle)
    /\ UNCHANGED <<added, layer_panicked, hit_vars, oe_vars, io_vars, conv_vars>>

\* add_object that pushes at the end of shapes instead of inserting at the index
\* the binary search gives
add_object_push(object) ==
    LET layer == scene_bundle.layer IN
    /\ scene_bundle' = [scene_bundle EXCEPT
          !.shapes = Append(scene_bundle.shapes, [object |-> object, layer |-> layer])]
    /\ added' = Append(added, [object |-> object, layer |-> layer])

\* add_object that tags with the layer the search landed next to instead of the
\* layer cursor
add_object_neighbour_layer(object) ==
    LET layer == scene_bundle.layer IN
    /\ \E r \in binary_search_by_layer(scene_bundle.shapes, layer) :
          LET index == IF r.ok THEN r.index + 1 ELSE r.index
              tag == IF index > 0 THEN Nth(scene_bundle.shapes, index - 1).layer
                     ELSE 0
          IN scene_bundle' = [scene_bundle EXCEPT
                 !.shapes = InsertAt(scene_bundle.shapes, index,
                                     [object |-> object, layer |-> tag])]
    /\ added' = Append(added, [object |-> object, layer |-> layer])

\* RenderingEngine::add_object
add_object(object) ==
    LET layer == scene_bundle.layer IN
    /\ \E r \in binary_search_by_layer(scene_bundle.shapes, layer) :
          LET index == IF r.ok THEN r.index + 1 ELSE r.index IN
          scene_bundle' = [scene_bundle EXCEPT
              !.shapes = InsertAt(scene_bundle.shapes, index,
                                  [object |-> object, layer |-> layer])]
    /\ added' = Append(added, [object |-> object, layer |-> layer])

LayerAddObject ==
    /\ ~layer_panicked
    /\ Len(added) < MaxObjects
    /\ add_object(Len(added) + 1)
    /\ layer_last' = LayerCall("add_object", scene_bundle)
    /\ UNCHANGED <<layer_panicked, hit_vars, oe_vars, io_vars, conv_vars>>

\* RenderingEngine::clear
LayerClear ==
    /\ ~layer_panicked
    /\ scene_bundle' = [scene_bundle EXCEPT !.shapes = <<>>]
    /\ added' = <<>>
    /\ layer_last' = LayerCall("clear", scene_bundle)
    /\ UNCHANGED <<layer_panicked, hit_vars, oe_vars, io_vars, conv_vars>>

\* ======================================================== ObjectEngine (keyed)

ObjLayers == 0..MaxObjLayer

\* Key(usize, usize); #[derive(Default)] gives Key(0, 0) without any add_object
Key(layer, index) == [layer |-> layer, index |-> index]
KeyDefault == Key(0, 0)

ObjectEngineDefault == [object_matrix |-> <<>>]

\* the keys a caller can hold: those add_object returned, and Key::default()
HeldKeys == {issued[i].key : i \in 1..Len(issued)} \cup {KeyDefault}

\* whether key currently refers to a stored object
refers(oe, key) ==
    /\ key.layer \in DOMAIN oe.object_matrix
    /\ key.index < Len(oe.object_matrix[key.layer])

\* get_object
get_object(oe, key) ==
    IF key.layer \notin DOMAIN oe.object_matrix THEN <<>>
    ELSE LET object_row == oe.object_matrix[key.layer] IN
         IF key.index >= Len(object_row) THEN <<>>
         ELSE <<Nth(object_row, key.index)>>

\* get_object_mut
get_object_mut(oe, key) ==
    IF key.layer \notin DOMAIN oe.object_matrix THEN <<>>
    ELSE LET object_row == oe.object_matrix[key.layer] IN
         IF key.index >= Len(object_row) THEN <<>>
         ELSE <<Nth(object_row, key.index)>>

OeAborted == oe_last.panicked

\* a call record: result is <<>> (None) or <<object>> (Some); panicked says the
\* call did not return
OeCall(op, key, stored, result, panicked, unchanged) ==
    [op |-> op, key |-> key, stored |-> stored, result |-> result,
     panicked |-> panicked, unchanged |-> unchanged]

\* the iteration of render over the store: the rows of the BTreeMap in ascending
\* order of layer, each row front to back
RECURSIVE draw_rows(_, _)
draw_rows(m, layers) ==
    IF layers = {} THEN <<>>
    ELSE LET layer == CHOOSE l \in layers : \A k \in layers : l <= k
         IN [i \in 1..Len(m[layer]) |-> [layer |-> layer, object |-> m[layer][i]]]
            \o draw_rows(m, layers \ {layer})

draw_order(oe) == draw_rows(oe.object_matrix, DOMAIN oe.object_matrix)

\* add_object that puts the object at the front of its row (insert(0, ..) for
\* push)
oe_add_object_front(layer, object) ==
    LET m == object_engine.object_matrix
        object_row == IF layer \in DOMAIN m THEN m[layer] ELSE <<>>
        index == Len(object_row)
        key == Key(layer, index)
    IN /\ object_engine' =
              [object_matrix |->
                  [l \in DOMAIN m \cup {layer} |->
                      IF l = layer THEN <<object>> \o object_row ELSE m[l]]]
       /\ issued' = Append(issued, [key |-> key, object |-> object])
       /\ live' = live \cup {[key |-> key, object |-> object]}
       /\ oe_last' = OeCall("add_object", key, FALSE, <<object>>, FALSE, FALSE)

\* add_object that takes the length of the row after the push for the key
oe_add_object_len_after(layer, object) ==
    LET m == object_engine.object_matrix
        object_row == IF layer \in DOMAIN m THEN m[layer] ELSE <<>>
        index == Len(object_row) + 1
        key == Key(layer, index)
    IN /\ object_engine' =
              [object_matrix |->
                  [l \in DOMAIN m \cup {layer} |->
                      IF l = layer THEN Append(object_row, object) ELSE m[l]]]
       /\ issued' = Append(issued, [key |-> key, object |-> object])
       /\ live' = live \cup {[key |-> key, object |-> object]}
       /\ oe_last' = OeCall("add_object", key, FALSE, <<object>>, FALSE, FALSE)

\* add_object: entry(layer).or_insert_with(Vec::default), push, Key(layer, len)
oe_add_object(layer, object) ==
    LET m == object_engine.object_matrix
        object_row == IF layer \in DOMAIN m THEN m[layer] ELSE <<>>
        index == Len(object_row)
        key == Key(layer, index)
    IN /\ object_engine' =
              [object_matrix |->
                  [l \in DOMAIN m \cup {layer} |->
                      IF l = layer THEN Append(object_row, object) ELSE m[l]]]
       /\ issued' = Append(issued, [key |-> key, object |-> object])
       /\ live' = live \cup {[key |-> key, object |-> object]}
       /\ oe_last' = OeCall("add_object", key, FALSE, <<object>>, FALSE, FALSE)

OeAddObject ==
    /\ ~OeAborted
    /\ Len(issued) < MaxAdds
    /\ \E layer \in ObjLayers : oe_add_object(layer, Len(issued) + 1)
    /\ UNCHANGED <<hit_vars, layer_vars, io_vars, conv_vars>>

\* remove_object: get_mut(&key.0)? then Vec::remove(key.1), which panics when
\* key.1 >= len
oe_remove_object(key) ==
    LET m == object_engine.object_matrix IN
    IF key.layer \notin DOMAIN m
    THEN /\ oe_last' = OeCall("remove_object", key, FALSE, <<>>, FALSE, TRUE)
         /\ UNCHANGED <<object_engine, issued, live>>
    ELSE LET object_row == m[key.layer] IN
         IF key.index >= Len(object_row)
         THEN /\ oe_last' = OeCall("remove_object", key, FALSE, <<>>, TRUE, TRUE)
              /\ UNCHANGED <<object_engine, issued, live>>
         ELSE /\ object_engine' =
                    [object_matrix |->
                        [m EXCEPT ![key.layer] = RemoveAt(object_row, key.index)]]
              /\ live' = {e \in live : e.key # key}
              /\ oe_last' = OeCall("remove_object", key, TRUE,
                                   <<Nth(object_row, key.index)>>, FALSE, FALSE)
              /\ UNCHANGED issued

OeRemoveObject ==
    /\ ~OeAborted
    /\ \E key \in HeldKeys : oe_remove_object(key)
    /\ UNCHANGED <<hit_vars, layer_vars, io_vars, conv_vars>>

\* remove_layer
oe_remove_layer(layer) ==
    LET m == object_engine.object_matrix IN
    /\ object_engine' = [object_matrix |-> [l \in DOMAIN m \ {layer} |-> m[l]]]
    /\ live' = {e \in live : e.key.layer # layer}
    /\ oe_last' = OeCall("remove_layer", Key(layer, 0), layer \in DOMAIN m,
                         <<>>, FALSE, layer \notin DOMAIN m)
    /\ UNCHANGED issued

OeRemoveLayer ==
    /\ ~OeAborted
    /\ \E layer \in ObjLayers : oe_remove_layer(layer)
    /\ UNCHANGED <<hit_vars, layer_vars, io_vars, conv_vars>>

\* clear
oe_clear ==
    /\ object_engine' = [object_matrix |-> <<>>]
    /\ live' = {}
    /\ oe_last' = OeCall("clear", KeyDefault, FALSE, <<>>, FALSE,
                         DOMAIN object_engine.object_matrix = {})
    /\ UNCHANGED issued

OeClear ==
    /\ ~OeAborted
    /\ oe_clear
    /\ UNCHANGED <<hit_vars, layer_vars, io_vars, conv_vars>>

\* a call of get_object: reads only
OeGetObject ==
    /\ ~OeAborted
    /\ \E key \in HeldKeys :
          oe_last' = OeCall("get_object", key, refers(object_engine, key),
                            get_object(object_engine, key), FALSE, TRUE)
    /\ UNCHANGED <<object_engine, issued, live, hit_vars, layer_vars, io_vars, conv_vars>>

\* a call of get_object_mut: hands out a reference, the store is not written here
OeGetObjectMut ==
    /\ ~OeAborted
    /\ \E key \in HeldKeys :
          oe_last' = OeCall("get_object_mut", key, refers(object_engine, key),
                            get_object_mut(object_engine, key), FALSE, TRUE)
    /\ UNCHANGED <<object_engine, issued, live, hit_vars, layer_vars, io_vars, conv_vars>>

\* ================================================== input queue (src/scene.rs)

IO_EVENTS_CAPACITY == 8

\* window.inner_size(), fixed here
WindowSize == [width |-> 2, height |-> 2]

\* absolute cursor positions the windowing layer reports
Positions == {[x |-> 0, y |-> 0], [x |-> 2, y |-> 2]}

\* IoEvent::CursorMoved(CursorMoved { position }), IoEvent::MouseInput(..)
CursorMoved(position) == [kind |-> "CursorMoved", position |-> <<position>>]
MouseInput == [kind |-> "MouseInput", position |-> <<>>]
IoEvents == {CursorMoved(p) : p \in Positions} \cup {MouseInput}

\* rectangles the application adds, in relative coordinates (y up), with or
\* without an on_touch callback
Rectangles ==
    {[top_left |-> [x |-> 0 - 1, y |-> 1], bottom_right |-> [x |-> 0, y |-> 0],
      on_touch |-> cb] : cb \in {<<>>, <<"on_touch">>}}
    \cup
    {[top_left |-> [x |-> 0 - 1, y |-> 1], bottom_right |-> [x |-> 1, y |-> 0 - 1],
      on_touch |-> cb] : cb \in {<<>>, <<"on_touch">>}}

\* absolute_to_relative_1d: (a / length) * 2 - 1, exact on the Positions used
absolute_to_relative_1d(a, length) == ((a * 2) \div length) - 1

\* absolute_to_relative
absolute_to_relative(size, absolute_position) ==
    [x |-> absolute_to_relative_1d(absolute_position.x, size.width),
     y |-> 0 - absolute_to_relative_1d(absolute_position.y, size.height)]

\* does_hit (nested in run_callback)
does_hit(rectangle, p) ==
    /\ rectangle.top_left.x <= p.x /\ p.x <= rectangle.bottom_right.x
    /\ rectangle.bottom_right.y <= p.y /\ p.y <= rectangle.top_left.y

\* run_callback: computes the relative position and walks the rectangles with an
\* empty loop body; the set of rectangles (by index) whose on_touch it invokes
run_callback(scene, size, absolute_position) ==
    LET relative_position == absolute_to_relative(size, absolute_position)
    IN {i \in 1..Len(scene) : FALSE}

\* handle_user_inputs that takes the newest event first (pop_back for pop_front)
RECURSIVE handle_user_inputs_newest_first(_, _, _, _)
handle_user_inputs_newest_first(user_inputs, cursor_position, scene, log) ==
    IF user_inputs = <<>>
    THEN [cursor_position |-> cursor_position, log |-> log]
    ELSE LET user_input == user_inputs[Len(user_inputs)]
             rest == SubSeq(user_inputs, 1, Len(user_inputs) - 1)
         IN
         IF user_input.kind = "CursorMoved"
         THEN handle_user_inputs_newest_first(rest, user_input.position, scene,
                  Append(log, [event |-> user_input,
                               cursor |-> user_input.position,
                               invoked |-> {}]))
         ELSE handle_user_inputs_newest_first(rest, cursor_position, scene,
                  Append(log, [event |-> user_input,
                               cursor |-> cursor_position,
                               invoked |->
                                   IF cursor_position # <<>>
                                   THEN run_callback(scene, WindowSize,
                                                     cursor_position[1])
                                   ELSE {}]))

\* handle_user_inputs that keeps the first cursor position it sees
RECURSIVE handle_user_inputs_first_wins(_, _, _, _)
handle_user_inputs_first_wins(user_inputs, cursor_position, scene, log) ==
    IF user_inputs = <<>>
    THEN [cursor_position |-> cursor_position, log |-> log]
    ELSE LET user_input == Head(user_inputs)
             moved == IF cursor_position = <<>> THEN user_input.position
                      ELSE cursor_position
         IN
         IF user_input.kind = "CursorMoved"
         THEN handle_user_inputs_first_wins(Tail(user_inputs), moved, scene,
                  Append(log, [event |-> user_input,
                               cursor |-> moved,
                               invoked |-> {}]))
         ELSE handle_user_inputs_first_wins(Tail(user_inputs), cursor_position, scene,
                  Append(log, [event |-> user_input,
                               cursor |-> cursor_position,
                               invoked |->
                                   IF cursor_position # <<>>
                                   THEN run_callback(scene, WindowSize,
                                                     cursor_position[1])
                                   ELSE {}]))

\* handle_user_inputs: pop_front until the queue is empty; log has one entry per
\* event handled: the event, the cursor position in effect once it is handled,
\* and the callbacks invoked for it
RECURSIVE handle_user_inputs(_, _, _, _)
handle_user_inputs(user_inputs, cursor_position, scene, log) ==
    IF user_inputs = <<>>
    THEN [cursor_position |-> cursor_position, log |-> log]
    ELSE LET user_input == Head(user_inputs) IN
         IF user_input.kind = "CursorMoved"
         THEN handle_user_inputs(Tail(user_inputs), user_input.position, scene,
                  Append(log, [event |-> user_input,
                               cursor |-> user_input.position,
                               invoked |-> {}]))
         ELSE handle_user_inputs(Tail(user_inputs), cursor_position, scene,
                  Append(log, [event |-> user_input,
                               cursor |-> cursor_position,
                               invoked |->
                                   IF cursor_position # <<>>
                                   THEN run_callback(scene, WindowSize,
                                                     cursor_position[1])
                                   ELSE {}]))

NoDrain ==
    [done |-> FALSE, scene |-> <<>>, before |-> <<>>, cursor |-> <<>>, log |-> <<>>]

\* submit_user_input evicting the newest event of a full queue (pop_back for
\* pop_front)
submit_user_input_pop_back(user_input) ==
    LET q == rendering_engine.user_inputs
        popped == IF Len(q) = IO_EVENTS_CAPACITY THEN SubSeq(q, 1, Len(q) - 1) ELSE q
    IN /\ rendering_engine' =
              [rendering_engine EXCEPT !.user_inputs = Append(popped, user_input)]
       /\ submitted' = Append(submitted, user_input)
       /\ drained' = NoDrain

\* submit_user_input testing len > IO_EVENTS_CAPACITY for len == IO_EVENTS_CAPACITY
submit_user_input_off_by_one(user_input) ==
    LET q == rendering_engine.user_inputs
        popped == IF Len(q) > IO_EVENTS_CAPACITY THEN Tail(q) ELSE q
    IN /\ rendering_engine' =
              [rendering_engine EXCEPT !.user_inputs = Append(popped, user_input)]
       /\ submitted' = Append(submitted, user_input)
       /\ drained' = NoDrain

\* submit_user_input
submit_user_input(user_input) ==
    LET q == rendering_engine.user_inputs
        popped == IF Len(q) = IO_EVENTS_CAPACITY THEN Tail(q) ELSE q
    IN /\ rendering_engine' =
              [rendering_engine EXCEPT !.user_inputs = Append(popped, user_input)]
       /\ submitted' = Append(submitted, user_input)
       /\ drained' = NoDrain

IoSubmit(limit) ==
    /\ Len(submitted) < limit
    /\ \E user_input \in IoEvents : submit_user_input(user_input)
    /\ cursor_history' = [cursor_history EXCEPT !.at_drain = <<>>]
    /\ UNCHANGED <<hit_vars, layer_vars, oe_vars, conv_vars>>

\* render that puts a MouseInput handled without a cursor position back on the
\* queue
render_requeue ==
    LET out == handle_user_inputs(rendering_engine.user_inputs,
                                  rendering_engine.cursor_position,
                                  rendering_engine.scene, <<>>)
        unresolved == {i \in 1..Len(out.log) :
                          /\ out.log[i].event.kind = "MouseInput"
                          /\ out.log[i].cursor = <<>>}
    IN /\ rendering_engine' =
              [rendering_engine EXCEPT
                  !.user_inputs = [i \in 1..Cardinality(unresolved) |-> MouseInput],
                  !.cursor_position = out.cursor_position]
       /\ drained' = [done |-> TRUE, scene |-> rendering_engine.scene,
                      before |-> rendering_engine.user_inputs,
                      cursor |-> rendering_engine.cursor_position, log |-> out.log]
       /\ submitted' = <<>>

\* render: handle_user_inputs, then the draw (not modelled)
render ==
    LET out == handle_user_inputs(rendering_engine.user_inputs,
                                  rendering_engine.cursor_position,
                                  rendering_engine.scene, <<>>)
    IN /\ rendering_engine' =
              [rendering_engine EXCEPT !.user_inputs = <<>>,
                                       !.cursor_position = out.cursor_position]
       /\ drained' = [done |-> TRUE, scene |-> rendering_engine.scene,
                      before |-> rendering_engine.user_inputs,
                      cursor |-> rendering_engine.cursor_position, log |-> out.log]
       /\ submitted' = <<>>

\* the positions in q of the CursorMoved events, and the last of a set of
\* positions
Moves(q) == {i \in 1..Len(q) : q[i].kind = "CursorMoved"}
Last(S) == CHOOSE i \in S : \A j \in S : j <= i

\* the position of the last CursorMoved among the first n events submitted since
\* the last drain, or else of the last one submitted before that drain
LastMoved(n) ==
    LET moves == {i \in Moves(submitted) : i <= n}
    IN IF moves = {} THEN cursor_history.moved ELSE submitted[Last(moves)].position

\* at_drain: the last CursorMoved submitted before the oldest event still queued
IoRender ==
    /\ render
    /\ cursor_history' =
          [moved |-> LastMoved(Len(submitted)),
           at_drain |-> <<LastMoved(Len(submitted)
                                    - Len(rendering_engine.user_inputs))>>]
    /\ UNCHANGED <<hit_vars, layer_vars, oe_vars, conv_vars>>

\* Scene::add_rectangle
add_rectangle(rectangle) ==
    /\ rendering_engine' =
          [rendering_engine EXCEPT !.scene = Append(rendering_engine.scene, rectangle)]
    /\ drained' = NoDrain
    /\ UNCHANGED submitted

IoAddRectangle ==
    /\ Len(rendering_engine.scene) < MaxRects
    /\ \E rectangle \in Rectangles : add_rectangle(rectangle)
    /\ cursor_history' = [cursor_history EXCEPT !.at_drain = <<>>]
    /\ UNCHANGED <<hit_vars, layer_vars, oe_vars, conv_vars>>

\* Scene::clear
IoSceneClear ==
    /\ rendering_engine' = [rendering_engine EXCEPT !.scene = <<>>]
    /\ drained' = NoDrain
    /\ cursor_history' = [cursor_history EXCEPT !.at_drain = <<>>]
    /\ UNCHANGED <<submitted, hit_vars, layer_vars, oe_vars, conv_vars>>

\* ============================================ coordinate conversions (primitives)

\* f32 values in exact arithmetic: fractions n/d in lowest terms with d > 0
Abs(n) == IF n < 0 THEN 0 - n ELSE n

RECURSIVE GCD(_, _)
GCD(a, b) == IF b = 0 THEN a ELSE GCD(b, a % b)

Rat(n, d) ==
    LET g == GCD(Abs(n), Abs(d))
        sgn == IF d < 0 THEN 0 - 1 ELSE 1
    IN [n |-> (sgn * n) \div g, d |-> (sgn * d) \div g]

Whole(k) == Rat(k, 1)
RatAdd(a, b) == Rat(a.n * b.d + b.n * a.d, a.d * b.d)
RatSub(a, b) == Rat(a.n * b.d - b.n * a.d, a.d * b.d)
RatMul(a, b) == Rat(a.n * b.n, a.d * b.d)
RatDiv(a, b) == Rat(a.n * b.d, a.d * b.n)
RatNeg(a) == Rat(0 - a.n, a.d)
RatLe(a, b) == a.n * b.d <= b.n * a.d

\* PhysicalSize<u32> with width > 0 and height > 0
Sizes == [width : 1..MaxLength, height : 1..MaxLength]

\* absolute scalars: the halves from one pixel before the viewport to one after
\* the largest viewport
AbsScalars == {Rat(k, 2) : k \in (0 - 2)..(2 * MaxLength + 2)}
AbsPoints == [x : AbsScalars, y : AbsScalars]

\* scaled scalars: the halves from -2 to 2
ScaledScalars == {Rat(k, 2) : k \in (0 - 4)..4}
ScaledPoints == [x : ScaledScalars, y : ScaledScalars]

\* abs_to_scaled_1d without the shift (the "- 1." left out)
abs_to_scaled_1d_unshifted(a, length) ==
    RatMul(RatDiv(a, Whole(length)), Whole(2))

\* abs_to_scaled_1d: (a / (length as f32)) * 2. - 1.
abs_to_scaled_1d(a, length) ==
    RatSub(RatMul(RatDiv(a, Whole(length)), Whole(2)), Whole(1))

\* scaled_to_abs_1d: ((a + 1.0) / 2.0) * (length as f32)
scaled_to_abs_1d(a, length) ==
    RatMul(RatDiv(RatAdd(a, Whole(1)), Whole(2)), Whole(length))

\* to_scaled that does not negate y
to_scaled_no_flip(abs_point, size) ==
    [x |-> abs_to_scaled_1d(abs_point.x, size.width),
     y |-> abs_to_scaled_1d(abs_point.y, size.height)]

\* AbsPoint::to_scaled
to_scaled(abs_point, size) ==
    [x |-> abs_to_scaled_1d(abs_point.x, size.width),
     y |-> RatNeg(abs_to_scaled_1d(abs_point.y, size.height))]

\* to_abs that negates y after the 1D conversion instead of before it
to_abs_negate_after(scaled_point, size) ==
    [x |-> scaled_to_abs_1d(scaled_point.x, size.width),
     y |-> RatNeg(scaled_to_abs_1d(scaled_point.y, size.height))]

\* ScaledPoint::to_abs
to_abs(scaled_point, size) ==
    [x |-> scaled_to_abs_1d(scaled_point.x, size.width),
     y |-> scaled_to_abs_1d(RatNeg(scaled_point.y), size.height)]

\* no conversion has been called yet; each behaviour makes one call
ConvIdle == conv_1d = <<>> /\ conv_2d = <<>>

\* a call of abs_to_scaled_1d
Conv1d ==
    /\ ConvIdle
    /\ \E a \in AbsScalars, length \in 1..MaxLength :
          conv_1d' = <<[a |-> a, length |-> length,
                        out |-> abs_to_scaled_1d(a, length)]>>
    /\ UNCHANGED <<conv_2d, hit_vars, layer_vars, oe_vars, io_vars>>

\* a call record of a 2D conversion; back is the result of converting out back
ConvCall(op, size, in, out, back) ==
    [op |-> op, size |-> size, in |-> in, out |-> out, back |-> back]

\* a call of AbsPoint::to_scaled
ConvToScaled ==
    /\ ConvIdle
    /\ \E abs_point \in AbsPoints, size \in Sizes :
          conv_2d' = <<ConvCall("to_scaled", size, abs_point,
                                to_scaled(abs_point, size), <<>>)>>
    /\ UNCHANGED <<conv_1d, hit_vars, layer_vars, oe_vars, io_vars>>

\* a call of ScaledPoint::to_abs
ConvToAbs ==
    /\ ConvIdle
    /\ \E scaled_point \in ScaledPoints, size \in Sizes :
          conv_2d' = <<ConvCall("to_abs", size, scaled_point,
                                to_abs(scaled_point, size), <<>>)>>
    /\ UNCHANGED <<conv_1d, hit_vars, layer_vars, oe_vars, io_vars>>

\* the opposite conversion applied to the result of the last call
ConvBack ==
    /\ conv_2d # <<>>
    /\ conv_2d[1].back = <<>>
    /\ LET call == conv_2d[1] IN
       conv_2d' = <<[call EXCEPT !.back =
                        IF call.op = "to_scaled"
                        THEN <<to_abs(call.out, call.size)>>
                        ELSE <<to_scaled(call.out, call.size)>>]>>
    /\ UNCHANGED <<conv_1d, hit_vars, layer_vars, oe_vars, io_vars>>

\* ============================================================ specifications

Init ==
    /\ hit_engine = HitEngineDefault
    /\ boxes = {}
    /\ next_id = 1
    /\ scene_bundle = SceneBundleNew
    /\ added = <<>>
    /\ layer_panicked = FALSE
    /\ layer_last = LayerCall("new", SceneBundleNew)
    /\ object_engine = ObjectEngineDefault
    /\ issued = <<>>
    /\ live = {}
    /\ oe_last = OeCall("new", KeyDefault, FALSE, <<>>, FALSE, TRUE)
    /\ rendering_engine = [scene |-> <<>>, user_inputs |-> <<>>,
                           cursor_position |-> <<>>]
    /\ submitted = <<>>
    /\ drained = NoDrain
    /\ cursor_history = [moved |-> <<>>, at_drain |-> <<>>]
    /\ conv_1d = <<>>
    /\ conv_2d = <<>>

\* the spatial index
NextHit == HitInsert \/ HitClear
SpecHit == Init /\ [][NextHit]_vars

\* the layer-ordered scene list
NextLayer == push_layer \/ pop_layer \/ LayerAddObject \/ LayerClear
SpecLayer == Init /\ [][NextLayer]_vars

\* the keyed object store
NextObj ==
    \/ OeAddObject \/ OeRemoveObject \/ OeRemoveLayer \/ OeClear
    \/ OeGetObject \/ OeGetObjectMut
SpecObj == Init /\ [][NextObj]_vars

\* the input queue, filled past its capacity between drains
NextQueue == IoSubmit(IO_EVENTS_CAPACITY + MaxExtra) \/ IoRender
SpecQueue == Init /\ [][NextQueue]_vars

\* the dispatcher over a scene of rectangles
NextDispatch == IoSubmit(MaxPending) \/ IoRender \/ IoAddRectangle \/ IoSceneClear
SpecDispatch == Init /\ [][NextDispatch]_vars

\* the coordinate conversions
NextConv == Conv1d \/ ConvToScaled \/ ConvToAbs \/ ConvBack
SpecConv == Init /\ [][NextConv]_vars

Next == NextHit \/ NextLayer \/ NextObj \/ NextQueue \/ NextDispatch \/ NextConv
Spec == Init /\ [][Next]_vars

\* ==================================================================== claims

\* the ids of the inserted boxes that contain p, by Shape::contains_point
Containing(p) == {b.id : b \in {bb \in boxes : contains_point(bb, p)}}

\* C1: for boxes with distinct ids and tl <= br inserted in any order, and every
\* query point, every result hit_search can return is exactly the set of ids of
\* the boxes that contain the point.
C1_HitSearchExact ==
    \A p \in QueryPoints :
        \A hit_ids \in hit_search(hit_engine, p) : hit_ids = Containing(p)

\* the four sorted lists of the index
HitLists ==
    {hit_engine.x_start, hit_engine.x_end, hit_engine.y_start, hit_engine.y_end}

\* C2: on a sorted list, search_front returns exactly the ids of the entries whose
\* scalar is <= v, whichever equal entry the binary search lands on.
C2_SearchFrontExact ==
    \A list \in HitLists : \A v \in QueryCoords :
        \A ids \in search_front(list, v) :
            ids = {list[i].id : i \in {j \in 1..Len(list) : list[j].el <= v}}

\* C3: on a sorted list, search_behind returns exactly the ids of the entries
\* whose scalar is >= v, whichever equal entry the binary search lands on.
C3_SearchBehindExact ==
    \A list \in HitLists : \A v \in QueryCoords :
        \A ids \in search_behind(list, v) :
            ids = {list[i].id : i \in {j \in 1..Len(list) : list[j].el >= v}}

\* C4: objects of the same layer appear in shapes in the order they were added
\* (objects are numbered in the order of the add_object calls), and shapes holds
\* exactly the objects added, ordered by layer.
C4_StableByLayer ==
    LET shapes == scene_bundle.shapes IN
    /\ {shapes[i] : i \in 1..Len(shapes)} = {added[i] : i \in 1..Len(added)}
    /\ Len(shapes) = Len(added)
    /\ \A i, j \in 1..Len(shapes) :
          i < j =>
            /\ shapes[i].layer <= shapes[j].layer
            /\ shapes[i].layer = shapes[j].layer => shapes[i].object < shapes[j].object

\* C5: a key returned by add_object never equals a key returned by an earlier
\* add_object call.
C5_KeysNeverReused ==
    \A i, j \in 1..Len(issued) : i < j => issued[i].key # issued[j].key

\* C6: get_object, get_object_mut and remove_object on a key that refers to no
\* stored object return None, without panicking, and leave the store unchanged.
C6_MissReturnsNone ==
    (/\ oe_last.op \in {"get_object", "get_object_mut", "remove_object"}
     /\ ~oe_last.stored)
    => (~oe_last.panicked /\ oe_last.result = <<>> /\ oe_last.unchanged)

\* C7: after remove_object(k), every other key that add_object returned and that
\* was not itself removed still resolves to the object added under it.
C7_KeysStable ==
    (oe_last.op = "remove_object" /\ ~oe_last.panicked)
    => \A e \in live : get_object(object_engine, e.key) = <<e.object>>

\* the last n elements of s
Suffix(s, n) == SubSeq(s, Len(s) - n + 1, Len(s))

\* C8: submit_user_input on a full queue drops the oldest event and appends the
\* new one, and below capacity only appends: the queue always holds the
\* min(capacity, number submitted) most recently submitted events, in order.
C8_DropOldest ==
    rendering_engine.user_inputs =
        Suffix(submitted, Min(Len(submitted), IO_EVENTS_CAPACITY))

\* capacity + 1 events were submitted without a drain and the first, which differs
\* from the second, is gone
C8_Witness ==
    /\ Len(submitted) = IO_EVENTS_CAPACITY + 1
    /\ submitted[1] # submitted[2]
    /\ rendering_engine.user_inputs = Tail(submitted)

\* C9: the input queue never holds more than IO_EVENTS_CAPACITY events.
C9_QueueBounded == Len(rendering_engine.user_inputs) <= IO_EVENTS_CAPACITY

\* the queue is full after more than IO_EVENTS_CAPACITY submissions, once a drain
\* has already moved the cursor
C9_Witness ==
    /\ Len(rendering_engine.user_inputs) = IO_EVENTS_CAPACITY
    /\ Len(submitted) > IO_EVENTS_CAPACITY
    /\ rendering_engine.cursor_position # <<>>

\* C10: when a MouseInput is drained while a cursor position is known, exactly the
\* rectangles that contain that position and carry a callback have it invoked.
C10_AllHitsNotified ==
    drained.done =>
      \A i \in 1..Len(drained.log) :
        LET h == drained.log[i] IN
        (h.event.kind = "MouseInput" /\ h.cursor # <<>>) =>
          \A r \in 1..Len(drained.scene) :
            (/\ does_hit(drained.scene[r],
                         absolute_to_relative(WindowSize, h.cursor[1]))
             /\ drained.scene[r].on_touch # <<>>)
            <=> r \in h.invoked

\* the cursor position in effect before the i-th event of the last drain
CursorBefore(i) == IF i = 1 THEN drained.cursor ELSE drained.log[i - 1].cursor

\* C11: a MouseInput drained while no cursor position has ever been seen invokes
\* no callback, leaves the scene and the cursor position as they were, and is
\* gone from the queue after the drain.
C11_UnseenCursorDropsButton ==
    drained.done =>
      \A i \in 1..Len(drained.log) :
        LET h == drained.log[i] IN
        (h.event.kind = "MouseInput" /\ CursorBefore(i) = <<>>) =>
          /\ h.invoked = {}
          /\ h.cursor = <<>>
          /\ rendering_engine.scene = drained.scene
          /\ rendering_engine.user_inputs = <<>>

\* a drain handled a MouseInput before any cursor position was known, then a
\* CursorMoved, with a rectangle carrying a callback in the scene
C11_Witness ==
    /\ drained.done
    /\ Len(drained.log) = 2
    /\ drained.log[1].event = MouseInput
    /\ drained.cursor = <<>>
    /\ drained.log[2].event.kind = "CursorMoved"
    /\ rendering_engine.cursor_position # <<>>
    /\ rendering_engine.user_inputs = <<>>
    /\ \E r \in 1..Len(drained.scene) : drained.scene[r].on_touch # <<>>

\* C12: after a drain the stored cursor position is the one of the last
\* CursorMoved that was in the queue; with no CursorMoved in the queue it is the
\* one stored before the drain.
C12_LastCursorMovedWins ==
    drained.done =>
      rendering_engine.cursor_position =
        IF Moves(drained.before) = {} THEN drained.cursor
        ELSE drained.before[Last(Moves(drained.before))].position

\* a drain of a queue with two CursorMoved at different positions, found with the
\* position of the earlier one stored
C12_Witness ==
    /\ drained.done
    /\ drained.cursor # <<>>
    /\ \E i \in Moves(drained.before) :
          /\ i # Last(Moves(drained.before))
          /\ drained.before[i].position
                # drained.before[Last(Moves(drained.before))].position
          /\ drained.cursor = drained.before[i].position
    /\ rendering_engine.cursor_position
         = drained.before[Last(Moves(drained.before))].position

Sorted(list) == \A i \in 1..(Len(list) - 1) : list[i].el <= list[i + 1].el

\* C13: whatever inserts and clears were made, each of x_start, x_end, y_start and
\* y_end is sorted in non-decreasing order of its scalar, equal scalars included.
C13_ListsSorted == \A list \in HitLists : Sorted(list)

\* two boxes with the same left edge, the second ending before the first
C13_Witness ==
    /\ Len(hit_engine.x_start) = 2
    /\ hit_engine.x_start[1].el = hit_engine.x_start[2].el
    /\ hit_engine.x_end[1].id = 2
    /\ hit_engine.x_end[1].el < hit_engine.x_end[2].el

SortedByLayer(shapes) ==
    \A i \in 1..(Len(shapes) - 1) : shapes[i].layer <= shapes[i + 1].layer

\* C14: whatever push_layer, pop_layer, add_object and clear calls were made, the
\* shapes list is sorted in non-decreasing order of layer.
C14_ShapesSortedByLayer == SortedByLayer(scene_bundle.shapes)

\* objects were added at a higher layer first and a lower layer later, with two at
\* the same layer
C14_Witness ==
    /\ Len(added) >= 3
    /\ \E i, j \in 1..Len(added) : i < j /\ added[i].layer > added[j].layer
    /\ \E i, j \in 1..Len(added) : i < j /\ added[i].layer = added[j].layer
    /\ Len(scene_bundle.shapes) = Len(added)

\* C15: pop_layer leaves a layer cursor of 0 at 0 and moves a cursor L > 0 to
\* L - 1; the cursor is never negative.
C15_PopSaturates ==
    /\ scene_bundle.layer >= 0
    /\ layer_last.op = "pop_layer" =>
          scene_bundle.layer = IF layer_last.before.layer = 0 THEN 0
                               ELSE layer_last.before.layer - 1

\* pop_layer was called with the cursor at 0 and objects in the list
C15_Witness ==
    /\ layer_last.op = "pop_layer"
    /\ layer_last.before.layer = 0
    /\ scene_bundle.layer = 0
    /\ scene_bundle.shapes # <<>>

\* C16: push_layer with the layer cursor at the maximum panics and leaves the
\* cursor there; with a smaller cursor L it sets it to L + 1.
C16_PushChecked ==
    /\ scene_bundle.layer <= UsizeMax
    /\ layer_last.op = "push_layer" =>
          IF layer_last.before.layer = UsizeMax
          THEN layer_panicked /\ scene_bundle.layer = UsizeMax
          ELSE ~layer_panicked /\ scene_bundle.layer = layer_last.before.layer + 1

\* push_layer was called with the cursor at the maximum
C16_Witness ==
    /\ layer_last.op = "push_layer"
    /\ layer_last.before.layer = UsizeMax
    /\ layer_panicked

\* C17: add_object stores the object with the layer cursor of the call as its tag,
\* moves no other entry and leaves the cursor; push_layer and pop_layer leave the
\* shapes list as it was.
C17_TagAndFrame ==
    /\ layer_last.op = "add_object" =>
          /\ scene_bundle.layer = layer_last.before.layer
          /\ \E i \in 1..Len(scene_bundle.shapes) :
                /\ scene_bundle.shapes[i]
                     = [object |-> Len(added), layer |-> layer_last.before.layer]
                /\ RemoveAt(scene_bundle.shapes, i - 1) = layer_last.before.shapes
    /\ layer_last.op \in {"push_layer", "pop_layer"} =>
          scene_bundle.shapes = layer_last.before.shapes

\* an object was added with the cursor above 0 next to objects of a lower layer
C17_Witness ==
    /\ layer_last.op = "add_object"
    /\ layer_last.before.layer > 0
    /\ \E i \in 1..Len(layer_last.before.shapes) :
          layer_last.before.shapes[i].layer < layer_last.before.layer
    /\ scene_bundle.shapes[Len(scene_bundle.shapes)].object = Len(added)

\* the indexes a freshly created HitEngine can become by inserting the boxes bs
\* in the order of their ids
RECURSIVE Fresh(_)
Fresh(bs) ==
    IF bs = {} THEN {HitEngineDefault}
    ELSE LET last == CHOOSE b \in bs : \A c \in bs : c.id <= b.id
         IN UNION {inserted(he, last) : he \in Fresh(bs \ {last})}

\* a clear has been made since the first insert
Cleared == next_id > 1 /\ \A b \in boxes : b.id > 1

\* C18: after a clear the four lists hold only the boxes inserted since, so with
\* none inserted since hit_search is empty for every point, and with some inserted
\* since the index is one a freshly created index becomes by the same inserts.
C18_ClearEmpties ==
    Cleared =>
      /\ \A list \in HitLists : collect(list) = {b.id : b \in boxes}
      /\ boxes = {} =>
            \A p \in QueryPoints : hit_search(hit_engine, p) = {{}}
      /\ hit_engine \in Fresh(boxes)

\* a box inserted after a clear is found at its corners
C18_Witness ==
    /\ Cleared
    /\ \E b \in boxes :
          /\ b.tl # b.br
          /\ hit_search(hit_engine, b.tl) = {{b.id}}
          /\ hit_search(hit_engine, b.br) = {{b.id}}

\* C19: on a HitEngine into which no box was ever inserted, hit_search returns the
\* empty set for every point.
C19_EmptyIndexNoHits ==
    next_id = 1 => \A p \in QueryPoints : hit_search(hit_engine, p) = {{}}

\* the index as created, searched at the origin
C19_Witness ==
    /\ next_id = 1
    /\ hit_engine = HitEngineDefault
    /\ hit_search(hit_engine, [x |-> 0, y |-> 0]) = {{}}

\* C20: with exactly one box inserted, hit_search returns {id} for every point on
\* or inside the box, corners included, and the empty set for every other point.
C20_SingleBox ==
    (Cardinality(boxes) = 1 /\ next_id = 2) =>
      \A p \in QueryPoints :
        hit_search(hit_engine, p) = {Containing(p)}

\* one box from (0,0) to (MaxCoord,MaxCoord): found at both corners, not found
\* just outside either
C20_Witness ==
    /\ next_id = 2
    /\ boxes = {[id |-> 1, tl |-> [x |-> 0, y |-> 0],
                 br |-> [x |-> MaxCoord, y |-> MaxCoord]]}
    /\ hit_search(hit_engine, [x |-> 0, y |-> 0]) = {{1}}
    /\ hit_search(hit_engine, [x |-> MaxCoord, y |-> MaxCoord]) = {{1}}
    /\ hit_search(hit_engine, [x |-> 0 - 1, y |-> 0]) = {{}}
    /\ hit_search(hit_engine, [x |-> MaxCoord, y |-> MaxCoord + 1]) = {{}}

\* the x-ranges of a and b do not intersect, and neither do their y-ranges
Disjoint(a, b) ==
    /\ a.br.x < b.tl.x \/ b.br.x < a.tl.x
    /\ a.br.y < b.tl.y \/ b.br.y < a.tl.y

\* a and b share at least one point
Overlapping(a, b) ==
    /\ a.tl.x <= b.br.x /\ b.tl.x <= a.br.x
    /\ a.tl.y <= b.br.y /\ b.tl.y <= a.br.y

\* C21: with two boxes whose x-ranges and y-ranges do not intersect, whichever was
\* inserted first, hit_search returns the id of the box the point is on or inside,
\* and the empty set for a point in neither.
C21_DisjointBoxes ==
    \A a \in boxes, b \in boxes :
        (Cardinality(boxes) = 2 /\ a # b /\ Disjoint(a, b)) =>
            \A p \in QueryPoints : hit_search(hit_engine, p) = {Containing(p)}

\* the box at (MaxCoord,MaxCoord) was inserted first, the box at (0,0) second;
\* each is found at its point and the gap between them hits nothing
C21_Witness ==
    /\ boxes = {[id |-> 1, tl |-> [x |-> MaxCoord, y |-> MaxCoord],
                 br |-> [x |-> MaxCoord, y |-> MaxCoord]],
                [id |-> 2, tl |-> [x |-> 0, y |-> 0], br |-> [x |-> 0, y |-> 0]]}
    /\ hit_search(hit_engine, [x |-> 0, y |-> 0]) = {{2}}
    /\ hit_search(hit_engine, [x |-> MaxCoord, y |-> MaxCoord]) = {{1}}
    /\ hit_search(hit_engine, [x |-> 1, y |-> 1]) = {{}}
    /\ hit_search(hit_engine, [x |-> 0 - 1, y |-> 0 - 1]) = {{}}

\* C22: with two overlapping boxes, whichever was inserted first, every result of
\* hit_search is both ids for a point in the intersection and the one id for a
\* point in only one of the boxes.
C22_OverlapExact ==
    \A a \in boxes, b \in boxes :
        (Cardinality(boxes) = 2 /\ a # b /\ Overlapping(a, b)) =>
            \A p \in QueryPoints :
                \A hit_ids \in hit_search(hit_engine, p) :
                    /\ (contains_point(a, p) /\ contains_point(b, p))
                          => hit_ids = {a.id, b.id}
                    /\ (contains_point(a, p) /\ ~contains_point(b, p))
                          => hit_ids = {a.id}

\* the indexes a freshly created HitEngine can become by inserting the boxes bs
\* in any order
RECURSIVE AnyOrder(_)
AnyOrder(bs) ==
    IF bs = {} THEN {HitEngineDefault}
    ELSE UNION {UNION {inserted(he, b) : he \in AnyOrder(bs \ {b})} : b \in bs}

\* C29: for every point, hit_search answers on the index as it would on the index
\* built by inserting the same boxes in any other order.
C29_OrderIndependent ==
    \A he \in AnyOrder(boxes) :
        \A p \in QueryPoints : hit_search(he, p) = hit_search(hit_engine, p)

\* C23: for every viewport with width > 0 and height > 0, converting a point to
\* the other space and back gives the point again, in both directions.
C23_RoundTrip ==
    (conv_2d # <<>> /\ conv_2d[1].back # <<>>) => conv_2d[1].back[1] = conv_2d[1].in

\* a point off both axes of the scaled space went through a viewport that is not
\* square and came back
C23_Witness ==
    /\ conv_2d # <<>>
    /\ conv_2d[1].op = "to_scaled"
    /\ conv_2d[1].size.width # conv_2d[1].size.height
    /\ conv_2d[1].out.y \notin {Whole(0), Whole(1), Whole(0 - 1)}
    /\ conv_2d[1].back = <<conv_2d[1].in>>

\* C24: for every length L > 0, abs_to_scaled_1d maps 0 to -1, L to 1, L/2 (L
\* even) to 0, and every a in 0..L into -1..1.
C24_BoundaryMapping ==
    conv_1d # <<>> =>
      LET a == conv_1d[1].a
          L == conv_1d[1].length
          out == conv_1d[1].out
      IN /\ a = Whole(0) => out = Whole(0 - 1)
         /\ a = Whole(L) => out = Whole(1)
         /\ (L % 2 = 0 /\ a = Whole(L \div 2)) => out = Whole(0)
         /\ (RatLe(Whole(0), a) /\ RatLe(a, Whole(L))) =>
               (RatLe(Whole(0 - 1), out) /\ RatLe(out, Whole(1)))

\* the middle of an even length maps to 0
C24_Witness ==
    /\ conv_1d # <<>>
    /\ conv_1d[1].length = 2
    /\ conv_1d[1].a = Whole(1)
    /\ conv_1d[1].out = Whole(0)

\* C25: to_scaled maps the absolute (0, 0) to (-1, 1) and (W, H) to (1, -1);
\* to_abs maps the scaled (-1, -1) to (0, H) and (1, 1) to (W, 0).
C25_YNegated ==
    conv_2d # <<>> =>
      LET call == conv_2d[1]
          W == Whole(call.size.width)
          H == Whole(call.size.height)
      IN /\ (call.op = "to_scaled" /\ call.in = [x |-> Whole(0), y |-> Whole(0)])
               => call.out = [x |-> Whole(0 - 1), y |-> Whole(1)]
         /\ (call.op = "to_scaled" /\ call.in = [x |-> W, y |-> H])
               => call.out = [x |-> Whole(1), y |-> Whole(0 - 1)]
         /\ (call.op = "to_abs"
               /\ call.in = [x |-> Whole(0 - 1), y |-> Whole(0 - 1)])
               => call.out = [x |-> Whole(0), y |-> H]
         /\ (call.op = "to_abs" /\ call.in = [x |-> Whole(1), y |-> Whole(1)])
               => call.out = [x |-> W, y |-> Whole(0)]

\* the scaled (-1, -1) was converted for a viewport higher than wide
C25_Witness ==
    /\ conv_2d # <<>>
    /\ conv_2d[1].op = "to_abs"
    /\ conv_2d[1].size.width < conv_2d[1].size.height
    /\ conv_2d[1].in = [x |-> Whole(0 - 1), y |-> Whole(0 - 1)]
    /\ conv_2d[1].out = [x |-> Whole(0), y |-> Whole(conv_2d[1].size.height)]

\* C26: after any add_object, remove_object and remove_layer calls, drawing
\* visits the stored objects in ascending order of layer, whatever layer was used
\* first, each in the layer it was added to, and within a layer in the order
\* they were added.
C26_DrawOrder ==
    LET draw == draw_order(object_engine) IN
    \A i, j \in 1..Len(draw) :
        /\ draw[i].layer = issued[draw[i].object].key.layer
        /\ i < j =>
              /\ draw[i].layer <= draw[j].layer
              /\ draw[i].layer = draw[j].layer => draw[i].object < draw[j].object

\* the higher layer was used first, an object was removed, and two objects of
\* different layers are still stored
C26_Witness ==
    /\ Len(issued) = MaxAdds
    /\ issued[1].key.layer > issued[2].key.layer
    /\ oe_last.op = "remove_object" /\ oe_last.stored
    /\ Len(draw_order(object_engine)) = 2
    /\ draw_order(object_engine)[1].layer < draw_order(object_engine)[2].layer
    /\ draw_order(object_engine)[1].object > draw_order(object_engine)[2].object

\* C28: an add_object step returns a key under which get_object finds the object
\* just added, stores exactly one more object, and leaves every object stored
\* before in its layer at its position.
C28_AddThenGet ==
    [][(oe_last'.op = "add_object" /\ issued' # issued) =>
          LET key == oe_last'.key
              m == object_engine.object_matrix
              after == object_engine'.object_matrix
          IN /\ get_object(object_engine', key) = <<Len(issued) + 1>>
             /\ Len(draw_order(object_engine')) = Len(draw_order(object_engine)) + 1
             /\ \A l \in DOMAIN m :
                   /\ l \in DOMAIN after
                   /\ \A i \in 1..Len(m[l]) : after[l][i] = m[l][i]]_vars

\* the last call added a second object to a layer while another layer also holds
\* an object, and the returned key resolves to the new object
C28_Witness ==
    /\ oe_last.op = "add_object"
    /\ oe_last.key.index = 1
    /\ Cardinality(DOMAIN object_engine.object_matrix) = 2
    /\ get_object(object_engine, oe_last.key) = <<Len(issued)>>

\* C27: a drain handles the queued events oldest first, each exactly once, and
\* leaves the queue empty.
C27_DrainInOrderOnce ==
    drained.done =>
      /\ [i \in 1..Len(drained.log) |-> drained.log[i].event] = drained.before
      /\ rendering_engine.user_inputs = <<>>

\* a full queue that starts with a CursorMoved and ends with a MouseInput was
\* drained
C27_Witness ==
    /\ drained.done
    /\ Len(drained.before) = IO_EVENTS_CAPACITY
    /\ drained.before[1].kind = "CursorMoved"
    /\ drained.before[IO_EVENTS_CAPACITY] = MouseInput
    /\ drained.log[1].event = drained.before[1]
    /\ rendering_engine.user_inputs = <<>>

\* C30: whatever was submitted and drained, more than IO_EVENTS_CAPACITY events
\* between two drains included, a MouseInput is handled with the position of the
\* last CursorMoved submitted before it in effect.
C30_ButtonAtLastMove ==
    drained.done =>
      \A i \in 1..Len(drained.log) :
        drained.log[i].event.kind = "MouseInput" =>
          LET moves == {j \in Moves(drained.before) : j < i}
          IN drained.log[i].cursor =
               IF moves = {} THEN cursor_history.at_drain[1]
               ELSE drained.before[Last(moves)].position

====
